---- MODULE Spec2Model ----
(***************************************************************************)
(* Model of office-presence/src/App.tsx: the attendance ledger of one      *)
(* signed-in user.  The React component state, the Firestore month         *)
(* documents, the asynchronous reads and writes in flight and the derived  *)
(* statistics are modelled; rendering, authentication screens and locale   *)
(* strings are not.                                                        *)
(***************************************************************************)
EXTENDS Integers, Sequences, FiniteSets, TLC

(***************************************************************************)
(* Calendar (dayjs): dates are records [y, m, d] with m in 0..11 as in JS. *)
(***************************************************************************)
IsLeap(y) == (y % 4 = 0 /\ y % 100 # 0) \/ y % 400 = 0

\* dayjs(new Date(year, month, 1)).daysInMonth()
daysInMonth(y, m) ==
    IF m = 1 THEN (IF IsLeap(y) THEN 29 ELSE 28)
    ELSE IF m \in {3, 5, 8, 10} THEN 30 ELSE 31

MonthOffset == <<0, 3, 2, 5, 0, 3, 5, 1, 4, 6, 2, 4>>

\* dayjs#day(): 0 = Sunday .. 6 = Saturday
DayOfWeek(dt) ==
    LET yy == IF dt.m < 2 THEN dt.y - 1 ELSE dt.y
    IN  (yy + yy \div 4 - yy \div 100 + yy \div 400 + MonthOffset[dt.m + 1] + dt.d) % 7

\* new Date(year, month, day)
MkDate(y, m, d) == [y |-> y, m |-> m, d |-> d]

\* dayjs#format("YYYY-MM-DD"): the text is determined by year, 1-based month, day
FormatYMD(dt) == <<dt.y, dt.m + 1, dt.d>>

\* dayjs#format("YYYY-MM") of the first day of the displayed month
FormatYM(y, m) == <<y, m + 1>>

\* dayjs#isBefore on two start-of-day dates
IsBefore(a, b) ==
    \/ a.y < b.y
    \/ a.y = b.y /\ a.m < b.m
    \/ a.y = b.y /\ a.m = b.m /\ a.d < b.d

RECURSIVE DaysBeforeMonth(_, _)
DaysBeforeMonth(y, m) == IF m = 0 THEN 0 ELSE DaysBeforeMonth(y, m - 1) + daysInMonth(y, m - 1)

\* the date n days after 1 January of year y (n within the year)
RECURSIVE DateOfOrdinal(_, _, _)
DateOfOrdinal(y, m, n) ==
    IF n < daysInMonth(y, m) THEN MkDate(y, m, n + 1)
    ELSE DateOfOrdinal(y, m + 1, n - daysInMonth(y, m))

AddDays(dt, n) == DateOfOrdinal(dt.y, 0, DaysBeforeMonth(dt.y, dt.m) + dt.d - 1 + n)

\* Western Easter Sunday (the "easter" rule of the holiday data)
Easter(y) ==
    LET a == y % 19
        b == y \div 100
        c == y % 100
        d == b \div 4
        e == b % 4
        f == (b + 8) \div 25
        g == (b - f + 1) \div 3
        h == (19 * a + b - d - g + 15) % 30
        i == c \div 4
        k == c % 4
        l == (32 + 2 * e + 2 * i - h - k) % 7
        mm == (a + 11 * h + 22 * l) \div 451
        mon == (h + l - 7 * mm + 114) \div 31
        day == ((h + l - 7 * mm + 114) % 31) + 1
    IN  MkDate(y, mon - 1, day)

\* hd.getHolidays(year) filtered to type "public", region PL
PublicHolidays(y) ==
    { MkDate(y, 0, 1), MkDate(y, 0, 6), Easter(y), AddDays(Easter(y), 1),
      MkDate(y, 4, 1), MkDate(y, 4, 3), AddDays(Easter(y), 49), AddDays(Easter(y), 60),
      MkDate(y, 7, 15), MkDate(y, 10, 1), MkDate(y, 10, 11),
      MkDate(y, 11, 25), MkDate(y, 11, 26) }

\* the value of the holidaysSet memo for a year: a set of "YYYY-MM-DD" texts
HolidaysOf(y) == { FormatYMD(h) : h \in PublicHolidays(y) }

isWeekend(dt) == DayOfWeek(dt) \in {0, 6}
isHolidayIn(hset, dt) == FormatYMD(dt) \in hset

(***************************************************************************)
(* JavaScript numbers.  The statistics are computed in IEEE-754 double     *)
(* arithmetic (/, * round to nearest, ties to even) and Math.round.  A     *)
(* positive double is [m, e]: m is its 53-bit significand, most            *)
(* significant bit first, and its value is m * 2^e.                        *)
(***************************************************************************)
SigBits == 53

FZero == [m |-> <<>>, e |-> 0]

RECURSIVE NormDown(_, _, _)
NormDown(n, d, e) == IF n >= 2 * d THEN NormDown(n, 2 * d, e + 1) ELSE <<n, d, e>>

RECURSIVE NormUp(_, _, _)
NormUp(n, d, e) == IF n < d THEN NormUp(2 * n, d, e - 1) ELSE <<n, d, e>>

\* the first k bits of n/d (1 <= n/d < 2), by long division
RECURSIVE DivBits(_, _, _)
DivBits(n, d, k) ==
    IF k = 0 THEN <<>>
    ELSE LET bit == IF n >= d THEN 1 ELSE 0
         IN  <<bit>> \o DivBits(2 * (n - bit * d), d, k - 1)

\* the remainder left after those k bits
RECURSIVE DivRem(_, _, _)
DivRem(n, d, k) ==
    IF k = 0 THEN n
    ELSE DivRem(2 * (n - (IF n >= d THEN d ELSE 0)), d, k - 1)

\* bits + 1, as a sequence one longer when the carry runs out of the top
RECURSIVE IncBits(_)
IncBits(bits) ==
    IF bits = <<>> THEN <<1>>
    ELSE LET n == Len(bits)
         IN  IF bits[n] = 0 THEN SubSeq(bits, 1, n - 1) \o <<1>>
             ELSE IncBits(SubSeq(bits, 1, n - 1)) \o <<0>>

\* round an exact value bits * 2^e (plus a nonzero tail when sticky) to a double
RoundToDouble(bits, sticky, e) ==
    LET L     == Len(bits)
        keep  == SubSeq(bits, 1, SigBits)
        guard == IF L > SigBits THEN bits[SigBits + 1] ELSE 0
        tail  == sticky \/ \E i \in (SigBits + 2)..L : bits[i] = 1
        up    == guard = 1 /\ (tail \/ keep[SigBits] = 1)
        inc   == IncBits(keep)
        e53   == e + (L - SigBits)
    IN  IF ~up THEN [m |-> keep, e |-> e53]
        ELSE IF Len(inc) = SigBits THEN [m |-> inc, e |-> e53]
        ELSE [m |-> SubSeq(inc, 1, SigBits), e |-> e53 + 1]

\* the double a / b for integers a >= 0, b > 0
FDiv(a, b) ==
    IF a = 0 THEN FZero
    ELSE LET nd  == NormUp(NormDown(a, b, 0)[1], NormDown(a, b, 0)[2], NormDown(a, b, 0)[3])
             n   == nd[1]
             d   == nd[2]
             e0  == nd[3]
         IN  RoundToDouble(DivBits(n, d, SigBits + 1), DivRem(n, d, SigBits + 1) # 0, e0 - SigBits)

\* bits * k for an integer k >= 1, least significant bit first
RECURSIVE MulRev(_, _, _, _)
MulRev(bits, i, k, carry) ==
    IF i = 0 THEN (IF carry = 0 THEN <<>> ELSE <<carry % 2>> \o MulRev(bits, 0, k, carry \div 2))
    ELSE LET t == bits[i] * k + carry
         IN  <<t % 2>> \o MulRev(bits, i - 1, k, t \div 2)

Reverse(s) == [i \in 1..Len(s) |-> s[Len(s) + 1 - i]]

\* the double x * k for a double x and an integer k >= 0
FMul(x, k) ==
    IF x = FZero \/ k = 0 THEN FZero
    ELSE RoundToDouble(Reverse(MulRev(x.m, SigBits, k, 0)), FALSE, x.e)

RECURSIVE BitsToInt(_)
BitsToInt(bits) ==
    IF bits = <<>> THEN 0
    ELSE 2 * BitsToInt(SubSeq(bits, 1, Len(bits) - 1)) + bits[Len(bits)]

\* Math.round of a double 0 <= x < 2^31: floor(x + 1/2), halves upwards
MathRound(x) ==
    IF x = FZero THEN 0
    ELSE LET nInt == SigBits + x.e
         IN  IF nInt < 0 THEN 0
             ELSE BitsToInt(SubSeq(x.m, 1, nInt)) + x.m[nInt + 1]

(***************************************************************************)
(* Marks: a mark is [d, status]; a missing status (undefined) is None.     *)
(***************************************************************************)
None == "none"

Mark(d, status) == [d |-> d, status |-> status]

\* arr.find((m) => m.d === day)?.status
getStatus(arr, day) ==
    IF \E i \in 1..Len(arr) : arr[i].d = day
    THEN arr[CHOOSE i \in 1..Len(arr) : arr[i].d = day /\ \A j \in 1..(i - 1) : arr[j].d # day].status
    ELSE None

\* Array.prototype.sort((a, b) => a.d - b.d): a stable sort by day
RECURSIVE InsertByDay(_, _)
InsertByDay(sorted, x) ==
    IF sorted = <<>> THEN <<x>>
    ELSE LET n == Len(sorted)
         IN  IF sorted[n].d - x.d <= 0 THEN Append(sorted, x)
             ELSE Append(InsertByDay(SubSeq(sorted, 1, n - 1), x), sorted[n])

RECURSIVE SortByDay(_)
SortByDay(arr) ==
    IF arr = <<>> THEN <<>>
    ELSE InsertByDay(SortByDay(SubSeq(arr, 1, Len(arr) - 1)), arr[Len(arr)])

\* setStatus without the filter: the old entry of the day is kept
setStatusAppend(arr, day, status) ==
    IF status # None THEN SortByDay(Append(arr, Mark(day, status)))
    ELSE SelectSeq(arr, LAMBDA m : m.d # day)

setStatus(arr, day, status) ==
    LET filtered == SelectSeq(arr, LAMBDA m : m.d # day)
    IN  IF status # None THEN SortByDay(Append(filtered, Mark(day, status))) ELSE filtered

\* none -> office -> excused -> none
nextStatus3(current) ==
    IF current = None THEN "office"
    ELSE IF current = "office" THEN "excused"
    ELSE None

\* the marks after a click that keeps the clicked day's mark alone
nextMarksAlone(arr, day) == setStatus(<<>>, day, nextStatus3(getStatus(arr, day)))

\* lines 116-118 of handleDayClick: the marks after one accepted click on day
nextMarks(arr, day) == setStatus(arr, day, nextStatus3(getStatus(arr, day)))

\* d.days.map((n) => ({ d: n, status: "office" }))
LegacyMarks(days) == [i \in 1..Len(days) |-> Mark(days[i], "office")]

(***************************************************************************)
(* Statistics, as the render computes them.                                *)
(***************************************************************************)
\* new Set(marks.filter((m) => m.status === "excused").map((m) => m.d))
ExcusedOf(arr) == { arr[i].d : i \in { j \in 1..Len(arr) : arr[j].status = "excused" } }

\* the loop of the workdays memo: days 1..daysInMonth in ascending order
RECURSIVE WorkdaysFrom(_, _, _, _, _)
WorkdaysFrom(i, y, m, hset, excused) ==
    IF i > daysInMonth(y, m) THEN <<>>
    ELSE LET dt == MkDate(y, m, i)
         IN  (IF ~isWeekend(dt) /\ ~isHolidayIn(hset, dt) /\ i \notin excused THEN <<i>> ELSE <<>>)
                \o WorkdaysFrom(i + 1, y, m, hset, excused)

WorkdaysOf(y, m, hset, excused) == WorkdaysFrom(1, y, m, hset, excused)

Includes(list, x) == \E i \in 1..Len(list) : list[i] = x

\* presentDays without the workdays.includes test
PresentDaysAll(arr, wd) == Cardinality({ i \in 1..Len(arr) : arr[i].status = "office" })

\* marks.filter((m) => m.status === "office" && workdays.includes(m.d)).length
PresentDaysOf(arr, wd) ==
    Cardinality({ i \in 1..Len(arr) : arr[i].status = "office" /\ Includes(wd, arr[i].d) })

\* the clamp of lines 130 and 139
PercentMax == 100
\* the longest month
MonthDaysMax == 31

\* Math.round((k / 100) * n) in double arithmetic
RoundedShare(k, n) == MathRound(FMul(FDiv(k, 100), n))

\* the same, computed once for every percentage and every count of days
ShareTable == [k \in 0..PercentMax, n \in 0..MonthDaysMax |-> RoundedShare(k, n)]

\* Math.round((requiredPercent / 100) * workdays.length)
BaseNeededOf(rp, n) == ShareTable[rp, n]

\* neededDays with the employment percentage taken as a factor, not divided by 100
NeededDaysUnscaled(rp, ep, n) == BaseNeededOf(rp, n) * ep

\* Math.round(baseNeeded * (employmentPercent / 100))
NeededDaysOf(rp, ep, n) == ShareTable[ep, BaseNeededOf(rp, n)]

\* NaN, the value of 0 / 0
FNaN == [m |-> <<>>, e |-> 1]

\* percent without the workdays.length test: 0 / 0 * 100
PercentNoGuard(present, n) == IF n # 0 THEN FMul(FDiv(present, n), 100) ELSE FNaN

\* workdays.length ? (presentDays / workdays.length) * 100 : 0
PercentOf(present, n) == IF n # 0 THEN FMul(FDiv(present, n), 100) ELSE FZero

\* missing without Math.max
MissingNoClamp(needed, present) == needed - present

\* Math.max(0, neededDays - presentDays)
MissingOf(needed, present) == IF needed - present > 0 THEN needed - present ELSE 0

\* the input taken as it is
ClampNone(val) == val

\* Math.max(0, Math.min(100, val))
Clamp(val) ==
    LET lo == IF val < PercentMax THEN val ELSE PercentMax
    IN  IF lo > 0 THEN lo ELSE 0

(***************************************************************************)
(* The running application.                                                *)
(***************************************************************************)
\* dayjs() when the page is loaded and rendered: Friday 3 January 2025
startYear == 2025
startMonth == 0
TodayDay == 3
today == MkDate(startYear, startMonth, TodayDay)

\* bounds of the exploration
\* months startMonth .. startMonth + NumMonths - 1 can be selected
NumMonths == 2
\* years startYear - NumYears + 1 .. startYear can be selected
NumYears == 2
\* day cells 1 .. MaxClickDay are clicked
MaxClickDay == 4
\* store requests in flight at one time
MaxInflight == 2
\* user events (sign-in/out, selects, clicks, edits) in one session
MaxSteps == 3

Months == { m \in 0..11 : startMonth <= m /\ m < startMonth + NumMonths }
Years == { y \in (startYear - 2)..(startYear + 2) : startYear - NumYears < y /\ y <= startYear }

\* values typed into the two percentage inputs (parseInt of the field)
PercentInputs == {-5, 50, 120}

NoUser == "null"
Uid == "u1"

\* a stored month document (MonthDoc).  A field holds Some(value), or Missing
\* when the document does not have it; Absent is the snapshot of no document
Missing == <<>>
Some(x) == <<x>>
Val(field) == field[1]
Doc(ms, ds, rp, ep) ==
    [exists |-> TRUE, marks |-> ms, days |-> ds, requiredPercent |-> rp, employmentPercent |-> ep]
Absent ==
    [exists |-> FALSE, marks |-> Missing, days |-> Missing,
     requiredPercent |-> Missing, employmentPercent |-> Missing]
Fields == {"marks", "days", "requiredPercent", "employmentPercent"}

\* the document written when the month has none (lines 65-70)
DefaultDoc == Doc(Some(<<>>), Missing, Some(40), Some(100))

\* setDoc(ref, data): the document becomes data
Replace(data) == data

\* setDoc(ref, data, { merge: true }): the fields of data replace the document's
Merge(old, data) ==
    [f \in Fields \cup {"exists"} |->
        IF f = "exists" THEN TRUE
        ELSE IF data[f] # Missing THEN data[f] ELSE old[f]]

\* the store when the session starts: this month has no document yet, next
\* month has one in the current shape written before employmentPercent existed,
\* last year's January has a legacy days list, last year's February a full one
InitialDoc(y, m) ==
    IF y = startYear /\ m = startMonth + 1
        THEN Doc(Some(<<Mark(10, "office"), Mark(11, "office"), Mark(12, "office"), Mark(13, "office")>>),
                 Missing, Some(40), Missing)
    ELSE IF y = startYear - 1 /\ m = startMonth
        THEN Doc(Missing, Some(<<3, 2>>), Some(50), Missing)
    ELSE IF y = startYear - 1 /\ m = startMonth + 1
        THEN Doc(Some(<<Mark(1, "excused"), Mark(2, "office")>>), Missing, Some(50), Some(50))
    ELSE Absent

Key(u, y, m) == <<u, FormatYM(y, m)>>
Keys == { Key(Uid, y, m) : y \in Years, m \in Months }

VARIABLES
    user,               \* NoUser or the signed-in uid
    year, month,        \* the displayed month
    loading,
    marks, requiredPercent, employmentPercent,
    holidaysSet, excusedSet, workdays,      \* the useMemo caches
    store,              \* Firestore: key -> document
    inflight,           \* requests awaiting the store's answer
    lastOp,             \* the handler or callback that ran last, with its argument
    marksKey,           \* the key of the document the marks were last set from, <<>> before any
    steps,              \* user events so far
    call, res           \* a ledger function called on its own: its arguments, its results

vars == <<user, year, month, loading, marks, requiredPercent, employmentPercent,
          holidaysSet, excusedSet, workdays, store, inflight, lastOp, marksKey, steps, call, res>>

appVars == <<user, year, month, loading, marks, requiredPercent, employmentPercent,
             holidaysSet, excusedSet, workdays, store, inflight, lastOp, marksKey, steps>>

yyyyMM == FormatYM(year, month)

isHoliday(dt) == isHolidayIn(holidaysSet, dt)

\* the statistics of the current render
presentDays == PresentDaysOf(marks, workdays)
baseNeeded == BaseNeededOf(requiredPercent, Len(workdays))
neededDays == NeededDaysOf(requiredPercent, employmentPercent, Len(workdays))
percent == PercentOf(presentDays, Len(workdays))
missing == MissingOf(neededDays, presentDays)

NoCall == [fn |-> "none", arr |-> <<>>, day |-> 0, status |-> None, a |-> 0, b |-> 0]

Mounted ==
    /\ user = NoUser
    /\ year = startYear
    /\ month = startMonth
    /\ loading = FALSE
    /\ marks = <<>>
    /\ requiredPercent = 40
    /\ employmentPercent = 100
    /\ holidaysSet = HolidaysOf(startYear)
    /\ excusedSet = {}
    /\ workdays = WorkdaysOf(startYear, startMonth, HolidaysOf(startYear), {})
    /\ store = [k \in Keys |-> InitialDoc(k[2][1], k[2][2] - 1)]
    /\ inflight = {}
    /\ lastOp = [op |-> "mount", day |-> 0, val |-> 0]
    /\ marksKey = <<>>
    /\ steps = 0

Init ==
    /\ Mounted
    /\ call = NoCall
    /\ res = <<>>

\* a re-render whose workdays memo leaves excusedSet out of its dependencies
RenderStale ==
    /\ holidaysSet' = IF year' # year THEN HolidaysOf(year') ELSE holidaysSet
    /\ excusedSet' = IF marks' # marks THEN ExcusedOf(marks') ELSE excusedSet
    /\ workdays' =
          IF <<year', month', holidaysSet'>> # <<year, month, holidaysSet>>
          THEN WorkdaysOf(year', month', holidaysSet', excusedSet')
          ELSE workdays

\* the re-render after a state change: each memo is recomputed when one of its
\* dependencies changed and kept otherwise
Render ==
    /\ holidaysSet' = IF year' # year THEN HolidaysOf(year') ELSE holidaysSet
    /\ excusedSet' = IF marks' # marks THEN ExcusedOf(marks') ELSE excusedSet
    /\ workdays' =
          IF <<year', month', holidaysSet', excusedSet'>> # <<year, month, holidaysSet, excusedSet>>
          THEN WorkdaysOf(year', month', holidaysSet', excusedSet')
          ELSE workdays

\* the "load month doc" effect, run after a render in which user or yyyyMM changed
RunEffect(u, y, m) ==
    IF u = NoUser
    THEN UNCHANGED <<loading, inflight>>
    ELSE /\ loading' = TRUE
         /\ inflight' = inflight \cup {[op |-> "getDoc", key |-> Key(u, y, m), data |-> Absent]}

HasRoom == Cardinality(inflight) < MaxInflight

\* a user event, counted against the session's bound
UserEvent ==
    /\ steps < MaxSteps
    /\ steps' = steps + 1

\* onAuthStateChanged(auth, (u) => setUser(...))
AuthChanged(u) ==
    /\ UserEvent
    /\ u # user
    /\ HasRoom
    /\ user' = u
    /\ RunEffect(u, year, month)
    /\ lastOp' = [op |-> "auth", day |-> 0, val |-> 0]
    /\ UNCHANGED <<year, month, marks, requiredPercent, employmentPercent, store>>
    /\ UNCHANGED marksKey
    /\ UNCHANGED <<call, res>>
    /\ Render

\* <select value={month} onChange=...>
setMonth(m) ==
    /\ UserEvent
    /\ user # NoUser
    /\ m # month
    /\ HasRoom
    /\ month' = m
    /\ RunEffect(user, year, m)
    /\ lastOp' = [op |-> "setMonth", day |-> 0, val |-> 0]
    /\ UNCHANGED <<user, year, marks, requiredPercent, employmentPercent, store>>
    /\ UNCHANGED marksKey
    /\ UNCHANGED <<call, res>>
    /\ Render

\* <select value={year} onChange=...>
setYear(y) ==
    /\ UserEvent
    /\ user # NoUser
    /\ y # year
    /\ HasRoom
    /\ year' = y
    /\ RunEffect(user, y, month)
    /\ lastOp' = [op |-> "setYear", day |-> 0, val |-> 0]
    /\ UNCHANGED <<user, month, marks, requiredPercent, employmentPercent, store>>
    /\ UNCHANGED marksKey
    /\ UNCHANGED <<call, res>>
    /\ Render

\* past without the month and year test
PastAnyMonth(dt) == IsBefore(dt, today)

\* line 113
past(dt) == IsBefore(dt, today) /\ dt.m = today.m /\ dt.y = today.y

\* the early returns without the past-day test
RejectedNoPast(dt) == user = NoUser \/ isWeekend(dt) \/ isHoliday(dt)

\* the early returns of handleDayClick (lines 110-114)
Rejected(dt) == user = NoUser \/ isWeekend(dt) \/ isHoliday(dt) \/ past(dt)

\* handleDayClick called for a cell of the day grid, which is rendered for a
\* signed-in user when loading is off; called with no user it returns at once
\* (line 110)
handleDayClick(day) ==
    /\ UserEvent
    /\ user = NoUser \/ ~loading
    /\ day <= daysInMonth(year, month)
    /\ HasRoom
    /\ lastOp' = [op |-> "click", day |-> day, val |-> 0]
    /\ IF Rejected(MkDate(year, month, day))
       THEN UNCHANGED <<marks, inflight>>
       ELSE /\ marks' = nextMarks(marks, day)
            /\ inflight' = inflight \cup
                  {[op |-> "merge", key |-> Key(user, year, month),
                    data |-> Doc(Some(marks'), Missing, Some(requiredPercent), Some(employmentPercent))]}
    /\ UNCHANGED <<user, year, month, loading, requiredPercent, employmentPercent, store>>
    /\ UNCHANGED marksKey
    /\ UNCHANGED <<call, res>>
    /\ Render

savePercent(val) ==
    /\ UserEvent
    /\ user # NoUser
    /\ HasRoom
    /\ requiredPercent' = Clamp(val)
    /\ inflight' = inflight \cup
          {[op |-> "merge", key |-> Key(user, year, month),
            data |-> Doc(Missing, Missing, Some(Clamp(val)), Missing)]}
    /\ lastOp' = [op |-> "savePercent", day |-> 0, val |-> val]
    /\ UNCHANGED <<user, year, month, loading, marks, employmentPercent, store>>
    /\ UNCHANGED marksKey
    /\ UNCHANGED <<call, res>>
    /\ Render

saveEmployment(val) ==
    /\ UserEvent
    /\ user # NoUser
    /\ HasRoom
    /\ employmentPercent' = Clamp(val)
    /\ inflight' = inflight \cup
          {[op |-> "merge", key |-> Key(user, year, month),
            data |-> Doc(Missing, Missing, Missing, Some(Clamp(val)))]}
    /\ lastOp' = [op |-> "saveEmployment", day |-> 0, val |-> val]
    /\ UNCHANGED <<user, year, month, loading, marks, requiredPercent, store>>
    /\ UNCHANGED marksKey
    /\ UNCHANGED <<call, res>>
    /\ Render

\* getDoc resolves with an existing document (lines 57-63, 76)
GetDocExists(r) ==
    /\ r.op = "getDoc"
    /\ store[r.key].exists
    /\ LET d == store[r.key]
       IN  /\ marks' = IF d.marks # Missing THEN Val(d.marks)
                       ELSE IF d.days # Missing THEN LegacyMarks(Val(d.days))
                       ELSE <<>>
           /\ requiredPercent' = IF d.requiredPercent # Missing THEN Val(d.requiredPercent) ELSE 40
           /\ employmentPercent' = IF d.employmentPercent # Missing THEN Val(d.employmentPercent) ELSE 100
    /\ loading' = FALSE
    /\ inflight' = inflight \ {r}
    /\ lastOp' = [op |-> "loaded", day |-> 0, val |-> 0]
    /\ UNCHANGED <<steps, user, year, month, store>>
    /\ marksKey' = r.key
    /\ UNCHANGED <<call, res>>
    /\ Render

\* getDoc resolves with no document: the default one is written (lines 64-70)
GetDocAbsent(r) ==
    /\ r.op = "getDoc"
    /\ ~store[r.key].exists
    /\ inflight' = (inflight \ {r}) \cup {[op |-> "create", key |-> r.key, data |-> DefaultDoc]}
    /\ lastOp' = [op |-> "absent", day |-> 0, val |-> 0]
    /\ UNCHANGED <<steps, user, year, month, loading, marks, requiredPercent, employmentPercent, store>>
    /\ UNCHANGED marksKey
    /\ UNCHANGED <<call, res>>
    /\ Render

\* that write resolves and the state is left as it was
CreateDoneNoReset(r) ==
    /\ r.op = "create"
    /\ store' = [store EXCEPT ![r.key] = Replace(r.data)]
    /\ loading' = FALSE
    /\ inflight' = inflight \ {r}
    /\ lastOp' = [op |-> "created", day |-> 0, val |-> 0]
    /\ UNCHANGED <<steps, user, year, month, marks, requiredPercent, employmentPercent>>
    /\ UNCHANGED marksKey
    /\ UNCHANGED <<call, res>>
    /\ Render

\* that write resolves (lines 71-73, 76)
CreateDone(r) ==
    /\ r.op = "create"
    /\ store' = [store EXCEPT ![r.key] = Replace(r.data)]
    /\ marks' = <<>>
    /\ requiredPercent' = 40
    /\ employmentPercent' = 100
    /\ loading' = FALSE
    /\ inflight' = inflight \ {r}
    /\ lastOp' = [op |-> "created", day |-> 0, val |-> 0]
    /\ UNCHANGED <<steps, user, year, month>>
    /\ marksKey' = r.key
    /\ UNCHANGED <<call, res>>
    /\ Render

\* getDoc or the default write rejects and the state falls back to the defaults
LoadFailedReset(r) ==
    /\ r.op \in {"getDoc", "create"}
    /\ loading' = FALSE
    /\ marks' = <<>>
    /\ requiredPercent' = 40
    /\ employmentPercent' = 100
    /\ inflight' = inflight \ {r}
    /\ lastOp' = [op |-> IF r.op = "getDoc" THEN "loadFailed" ELSE "createFailed", day |-> 0, val |-> 0]
    /\ UNCHANGED <<steps, user, year, month, store>>
    /\ UNCHANGED marksKey
    /\ UNCHANGED <<call, res>>
    /\ Render

\* getDoc or the default write rejects: only the finally block runs (line 76)
LoadFailed(r) ==
    /\ r.op \in {"getDoc", "create"}
    /\ loading' = FALSE
    /\ inflight' = inflight \ {r}
    /\ lastOp' = [op |-> IF r.op = "getDoc" THEN "loadFailed" ELSE "createFailed", day |-> 0, val |-> 0]
    /\ UNCHANGED <<steps, user, year, month, marks, requiredPercent, employmentPercent, store>>
    /\ UNCHANGED marksKey
    /\ UNCHANGED <<call, res>>
    /\ Render

\* a merge write of a handler reaches the store
SetDocDone(r) ==
    /\ r.op = "merge"
    /\ store' = [store EXCEPT ![r.key] = Merge(@, r.data)]
    /\ inflight' = inflight \ {r}
    /\ lastOp' = [op |-> "written", day |-> 0, val |-> 0]
    /\ UNCHANGED <<steps, user, year, month, loading, marks, requiredPercent, employmentPercent>>
    /\ UNCHANGED marksKey
    /\ UNCHANGED <<call, res>>
    /\ Render

\* a merge write of a handler is rejected and the marks are taken back from the store
SetDocFailedRollback(r) ==
    /\ r.op = "merge"
    /\ marks' = IF store[r.key].marks # Missing THEN Val(store[r.key].marks) ELSE <<>>
    /\ inflight' = inflight \ {r}
    /\ lastOp' = [op |-> "writeFailed", day |-> 0, val |-> 0]
    /\ UNCHANGED <<steps, user, year, month, loading, requiredPercent, employmentPercent, store>>
    /\ UNCHANGED marksKey
    /\ UNCHANGED <<call, res>>
    /\ Render

\* a merge write of a handler is rejected: nothing awaits its result
SetDocFailed(r) ==
    /\ r.op = "merge"
    /\ inflight' = inflight \ {r}
    /\ lastOp' = [op |-> "writeFailed", day |-> 0, val |-> 0]
    /\ UNCHANGED <<steps, user, year, month, loading, marks, requiredPercent, employmentPercent, store>>
    /\ UNCHANGED marksKey
    /\ UNCHANGED <<call, res>>
    /\ Render

Next ==
    \/ \E u \in {NoUser, Uid} : AuthChanged(u)
    \/ \E m \in Months : setMonth(m)
    \/ \E y \in Years : setYear(y)
    \/ \E day \in 1..MaxClickDay : handleDayClick(day)
    \/ \E val \in PercentInputs : savePercent(val)
    \/ \E val \in PercentInputs : saveEmployment(val)
    \/ \E r \in inflight : GetDocExists(r)
    \/ \E r \in inflight : GetDocAbsent(r)
    \/ \E r \in inflight : CreateDone(r)
    \/ \E r \in inflight : LoadFailed(r)
    \/ \E r \in inflight : SetDocDone(r)
    \/ \E r \in inflight : SetDocFailed(r)

Spec == Init /\ [][Next]_vars

(***************************************************************************)
(* The ledger functions on their own: the arguments are drawn from bounded *)
(* sets and the function is applied to them (setStatus twice over).        *)
(***************************************************************************)
\* marks in an argument collection
MaxArrLen == 3
\* days 1 .. MaxArrDay occur in it
MaxArrDay == 3
ArgMarks == { Mark(d, st) : d \in 1..MaxArrDay, st \in {"office", "excused"} }
ArgArrs == UNION { [1..n -> ArgMarks] : n \in 0..MaxArrLen }

InitFn ==
    /\ Mounted
    /\ \/ \E arr \in ArgArrs, d \in 1..MaxArrDay, st \in {"office", "excused", None} :
              call = [fn |-> "setStatus", arr |-> arr, day |-> d, status |-> st, a |-> 0, b |-> 0]
       \/ \E n \in 0..MonthDaysMax, rp \in 0..PercentMax, ep \in 0..PercentMax :
              call = [fn |-> "neededDays", arr |-> <<>>, day |-> n, status |-> None, a |-> rp, b |-> ep]
       \/ \E pr \in 0..MonthDaysMax, n \in 0..MonthDaysMax :
              call = [fn |-> "percent", arr |-> <<>>, day |-> 0, status |-> None, a |-> pr, b |-> n]
    /\ res = <<>>

\* setStatus(arr, day, status), then again on its own result
CallSetStatus ==
    /\ call.fn = "setStatus"
    /\ Len(res) < 2
    /\ res' = Append(res, setStatus(IF res = <<>> THEN call.arr ELSE res[Len(res)], call.day, call.status))
    /\ UNCHANGED <<call, appVars>>

\* neededDays for requiredPercent a, employmentPercent b and workdays.length day
CallNeededDays ==
    /\ call.fn = "neededDays"
    /\ res = <<>>
    /\ res' = <<NeededDaysOf(call.a, call.b, call.day)>>
    /\ UNCHANGED <<call, appVars>>

\* percent for presentDays a and workdays.length b
CallPercent ==
    /\ call.fn = "percent"
    /\ res = <<>>
    /\ res' = <<PercentOf(call.a, call.b)>>
    /\ UNCHANGED <<call, appVars>>

NextFn == CallSetStatus \/ CallNeededDays \/ CallPercent

SpecFn == InitFn /\ [][NextFn]_vars

(***************************************************************************)
(* Properties.                                                             *)
(***************************************************************************)
displayed(day) == MkDate(year, month, day)

\* the public holidays of each year the year select offers
YearHolidays == [y \in (startYear - 2)..(startYear + 2) |-> HolidaysOf(y)]

\* the classification of a displayed day, stated from the calendar itself
WeekendDay(day) == DayOfWeek(displayed(day)) \in {0, 6}
HolidayDay(day) == FormatYMD(displayed(day)) \in YearHolidays[year]
LiveMonth == year = today.y /\ month = today.m
PastDay(day) == LiveMonth /\ day < today.d
MutableDay(day) == ~WeekendDay(day) /\ ~HolidayDay(day) /\ ~PastDay(day)

\* the days of each month that are neither Saturday nor Sunday nor a public
\* holiday of that year
CandidateDays ==
    [y \in (startYear - 2)..(startYear + 2), m \in 0..11 |->
        { d \in 1..daysInMonth(y, m) :
            DayOfWeek(MkDate(y, m, d)) \notin {0, 6} /\ FormatYMD(MkDate(y, m, d)) \notin YearHolidays[y] }]

\* a step that is a click on the cell lastOp'.day
ClickStep == steps' = steps + 1 /\ lastOp'.op = "click"

CycleAfter(st) ==
    CASE st = None -> "office"
      [] st = "office" -> "excused"
      [] st = "excused" -> None

Ascending(arr) == \A i, j \in 1..Len(arr) : i < j => arr[i].d < arr[j].d
UniqueDays(arr) == \A i, j \in 1..Len(arr) : i # j => arr[i].d # arr[j].d
MarkSet(arr) == { arr[i] : i \in 1..Len(arr) }

\* what holds of three clicks in a row: they give back the marks they started
\* from when those are in ascending order of day with no day twice
SortedThreeToggles ==
    (Ascending(marks) /\ UniqueDays(marks)) =>
        \A day \in 1..daysInMonth(year, month) :
            MutableDay(day) => nextMarks(nextMarks(nextMarks(marks, day), day), day) = marks

\* C1: three clicks in a row on a mutable day of the displayed month give back
\* the marks collection they started from, whatever the collection is, and the
\* first click moves the day along none -> office -> excused -> none
C1_ThreeToggles ==
    \A day \in 1..daysInMonth(year, month) :
        MutableDay(day) =>
            /\ nextMarks(nextMarks(nextMarks(marks, day), day), day) = marks
            /\ getStatus(nextMarks(marks, day), day) = CycleAfter(getStatus(marks, day))

\* C2: a click on a weekend day, a public holiday or a day before today in the
\* live current month leaves the marks as they were and issues no write
C2_ImmutableClick ==
    [][ (ClickStep /\ (WeekendDay(lastOp'.day) \/ HolidayDay(lastOp'.day) \/ PastDay(lastOp'.day)))
            => (marks' = marks /\ inflight' = inflight /\ store' = store) ]_vars

C2_Witness ==
    /\ lastOp.op = "click"
    /\ PastDay(lastOp.day) /\ ~WeekendDay(lastOp.day) /\ ~HolidayDay(lastOp.day)
    /\ user # NoUser

\* C3: for a signed-in user a click on a day that is no weekend and no holiday
\* moves that day to the next status of the cycle and sends the new marks when
\* the displayed month is not today's, whatever the date, and in today's month
\* when the day is today or later; before today in today's month it does not
C3_OtherMonthsMutable ==
    [][ (ClickStep /\ user # NoUser /\ ~WeekendDay(lastOp'.day) /\ ~HolidayDay(lastOp'.day))
            => IF ~LiveMonth \/ lastOp'.day >= today.d
               THEN /\ getStatus(marks', lastOp'.day) = CycleAfter(getStatus(marks, lastOp'.day))
                    /\ \E w \in inflight' : w.op = "merge" /\ w.data.marks = Some(marks')
               ELSE marks' = marks ]_vars

C3_Witness ==
    /\ lastOp.op = "click"
    /\ ~LiveMonth /\ IsBefore(displayed(lastOp.day), today)
    /\ ~WeekendDay(lastOp.day) /\ ~HolidayDay(lastOp.day)
    /\ getStatus(marks, lastOp.day) # None

\* C4: setStatus on a collection with unique days, in any order, returns the
\* other days' entries plus the new one when a status is given, in ascending
\* order of day
C4_SetMarkSorted ==
    (call.fn = "setStatus" /\ Len(res) >= 1 /\ UniqueDays(call.arr)) =>
        /\ MarkSet(res[1]) =
              { m \in MarkSet(call.arr) : m.d # call.day }
                \cup (IF call.status # None THEN {Mark(call.day, call.status)} ELSE {})
        /\ UniqueDays(res[1])
        /\ Ascending(res[1])

\* what holds of setStatus: the content is as stated, and the result is in
\* ascending order when a status is given or the argument was
SortedWhenSetOrSortedBefore ==
    (call.fn = "setStatus" /\ Len(res) >= 1 /\ UniqueDays(call.arr)) =>
        /\ MarkSet(res[1]) =
              { m \in MarkSet(call.arr) : m.d # call.day }
                \cup (IF call.status # None THEN {Mark(call.day, call.status)} ELSE {})
        /\ UniqueDays(res[1])
        /\ (call.status # None \/ Ascending(call.arr)) => Ascending(res[1])

\* C5: setStatus applied again to its own result with the same day and status
\* changes nothing, and with no status the day has no entry afterwards
C5_SetMarkIdempotent ==
    (call.fn = "setStatus") =>
        /\ Len(res) = 2 => res[2] = res[1]
        /\ (Len(res) >= 1 /\ call.status = None) => \A i \in 1..Len(res[1]) : res[1][i].d # call.day
        /\ (Len(res) >= 1 /\ call.status # None) => getStatus(res[1], call.day) = call.status

C5_Witness ==
    /\ call.fn = "setStatus" /\ Len(res) = 2
    /\ call.status = None
    /\ getStatus(call.arr, call.day) # None
    /\ res[2] = res[1]

\* the days of the displayed month that are no weekend, no holiday of the
\* displayed year and not marked excused in the current marks
ExpectedWorkdays ==
    { d \in CandidateDays[year, month] :
        ~\E i \in 1..Len(marks) : marks[i].d = d /\ marks[i].status = "excused" }

\* C6: in every state the workdays list is exactly those days in ascending
\* order, computed from the marks as they are now
C6_WorkdaysExact ==
    /\ { workdays[i] : i \in 1..Len(workdays) } = ExpectedWorkdays
    /\ \A i, j \in 1..Len(workdays) : i < j => workdays[i] < workdays[j]

C6_Witness ==
    /\ lastOp.op = "click"
    /\ getStatus(marks, lastOp.day) = "excused"
    /\ ~WeekendDay(lastOp.day) /\ ~HolidayDay(lastOp.day)
    /\ ~Includes(workdays, lastOp.day)

\* C7: presentDays counts the office marks whose day is a workday; an office
\* mark on a weekend or holiday stays in marks uncounted, an excused mark is
\* never counted
C7_PresentCount ==
    LET expect == ExpectedWorkdays
    IN  presentDays =
            Cardinality({ i \in 1..Len(marks) : marks[i].status = "office" /\ marks[i].d \in expect })

C7_Witness ==
    /\ \E i \in 1..Len(marks) :
          marks[i].status = "office" /\ marks[i].d <= daysInMonth(year, month) /\ WeekendDay(marks[i].d)
    /\ presentDays < Cardinality({ i \in 1..Len(marks) : marks[i].status = "office" })

\* round(x / 100) for an integer x >= 0, halves upwards, in exact arithmetic
RoundHundredth(x) == (2 * x + 100) \div 200

TwoStageUpTo24 ==
    (call.fn = "neededDays" /\ res # <<>> /\ call.day <= 24) =>
        res[1] = RoundHundredth(RoundHundredth(call.a * call.day) * call.b)

\* C9: missing is max(0, neededDays - presentDays), never negative; with 20
\* workdays, 40 percent required, full employment and 5 workdays marked present
\* the statistics are 5, 25 percent, 8 and 3
C9_Shortfall ==
    LET needed  == neededDays
        present == presentDays
        short   == missing
        expect  == ExpectedWorkdays
    IN  /\ short >= 0
        /\ needed > present => short = needed - present
        /\ needed <= present => short = 0
        /\ ( /\ requiredPercent = 40 /\ employmentPercent = 100
             /\ Cardinality(expect) = 20
             /\ Cardinality({ i \in 1..Len(marks) :
                                 marks[i].status = "office" /\ marks[i].d \in expect }) = 5 )
           => ( /\ Len(workdays) = 20
                /\ present = 5
                /\ percent = FDiv(25, 1)
                /\ needed = 8
                /\ short = 3 )

C9_Witness ==
    /\ Len(workdays) = 20
    /\ requiredPercent = 40 /\ employmentPercent = 100
    /\ presentDays = 5
    /\ missing = 3
    /\ lastOp.op = "click"

\* the double after x, and two doubles that are equal or next to each other
FSucc(x) ==
    LET inc == IncBits(x.m)
    IN  IF Len(inc) = SigBits THEN [m |-> inc, e |-> x.e]
        ELSE [m |-> SubSeq(inc, 1, SigBits), e |-> x.e + 1]
WithinOneUlp(x, y) ==
    \/ x = y
    \/ x # FZero /\ y # FZero /\ (FSucc(x) = y \/ FSucc(y) = x)

IsLegacy(d) == d.exists /\ d.marks = Missing /\ d.days # Missing

\* the request whose answer this step handles
Answered(r) == r \in inflight /\ r \notin inflight'

\* a step in which the read r resolves with a document and the state is set from it
LoadedStep(r) == Answered(r) /\ r.op = "getDoc" /\ lastOp'.op = "loaded"

\* a step in which the merge write r reaches the store
WrittenStep(r) == Answered(r) /\ r.op = "merge" /\ lastOp'.op = "written"

\* what holds of the legacy upgrade: a legacy document loads as one office mark
\* per listed day, in the order of the list, with employmentPercent 100 when
\* the document has none, and no request carries a days field
LegacyLoadStep ==
    \A r \in inflight :
        (LoadedStep(r) /\ IsLegacy(store[r.key])) =>
            LET ds == Val(store[r.key].days)
            IN  /\ Len(marks') = Len(ds)
                /\ \A i \in 1..Len(ds) : marks'[i] = Mark(ds[i], "office")
                /\ store[r.key].employmentPercent = Missing => employmentPercent' = 100
NoDaysWritten == \A r \in inflight : r.data.days = Missing
LegacyLoadedAsMarks == [][ LegacyLoadStep /\ NoDaysWritten' ]_vars

\* C11: a legacy document loads as one office mark per listed day with
\* employmentPercent 100, no write carries a days field, and once a click's
\* write has reached the store the stored document has no days field
C11_LegacyUpgrade ==
    [][ /\ LegacyLoadStep
        /\ NoDaysWritten'
        /\ \A r \in inflight :
              (WrittenStep(r) /\ r.data.marks # Missing) => store'[r.key].days = Missing ]_vars

\* what holds of the marks in every state: no day occurs twice
MarksUniqueDays == UniqueDays(marks)

\* C12: in every state the marks have unique days and are in ascending order
\* of day
C12_MarksSortedUnique == UniqueDays(marks) /\ Ascending(marks)

\* a step in which the read r resolves with no document
AbsentStep(r) == Answered(r) /\ r.op = "getDoc" /\ lastOp'.op = "absent"

\* a step in which the default write r of a load resolves
CreatedStep(r) == Answered(r) /\ r.op = "create" /\ lastOp'.op = "created"

Clamped(v) == IF v < 0 THEN 0 ELSE IF v > 100 THEN 100 ELSE v

\* the percentages a request carries are within 0..100
PayloadInRange(w) ==
    /\ w.data.requiredPercent # Missing => Val(w.data.requiredPercent) \in 0..100
    /\ w.data.employmentPercent # Missing => Val(w.data.employmentPercent) \in 0..100

\* C14: savePercent and saveEmployment set the local value, and send to the
\* displayed month's key, the input clamped to 0..100, whatever integer the input
\* is, and no request carries a percentage outside 0..100
C14_ClampedPercent ==
    [][ /\ (steps' = steps + 1 /\ lastOp'.op = "savePercent") =>
              /\ requiredPercent' = Clamped(lastOp'.val)
              /\ [op |-> "merge", key |-> Key(user, year, month),
                  data |-> Doc(Missing, Missing, Some(Clamped(lastOp'.val)), Missing)] \in inflight'
        /\ (steps' = steps + 1 /\ lastOp'.op = "saveEmployment") =>
              /\ employmentPercent' = Clamped(lastOp'.val)
              /\ [op |-> "merge", key |-> Key(user, year, month),
                  data |-> Doc(Missing, Missing, Missing, Some(Clamped(lastOp'.val)))] \in inflight'
        /\ requiredPercent' \in 0..100 /\ employmentPercent' \in 0..100
        /\ \A w \in inflight' : PayloadInRange(w) ]_vars

\* an input above 100 has been taken and 100 is on its way to the store
C14_Witness ==
    /\ lastOp.op = "savePercent" /\ lastOp.val > 100
    /\ requiredPercent = 100
    /\ \E w \in inflight : w.op = "merge" /\ w.data.requiredPercent = Some(100)

\* a step in which the merge write r is rejected
WriteFailedStep(r) == Answered(r) /\ r.op = "merge" /\ lastOp'.op = "writeFailed"

ReadFailedStep(r) == Answered(r) /\ r.op = "getDoc" /\ lastOp'.op = "loadFailed"

\* the reads in flight
Reads(fl) == { r \in fl : r.op = "getDoc" }

\* C16: a rejected read leaves the marks, the two percentages and with them
\* every statistic as they were, issues no request in its place, and switches
\* loading off; a read is only ever issued by a change of user, month or year
C16_FailedReadKeepsState ==
    [][ /\ \A r \in inflight :
              ReadFailedStep(r) =>
                  /\ marks' = marks
                  /\ requiredPercent' = requiredPercent /\ employmentPercent' = employmentPercent
                  /\ workdays' = workdays
                  /\ PresentDaysOf(marks', workdays') = presentDays
                  /\ NeededDaysOf(requiredPercent', employmentPercent', Len(workdays')) = neededDays
                  /\ PercentOf(PresentDaysOf(marks', workdays'), Len(workdays')) = percent
                  /\ inflight' = inflight \ {r}
                  /\ store' = store
                  /\ loading' = FALSE
        /\ ~(Reads(inflight') \subseteq Reads(inflight)) =>
              lastOp'.op \in {"auth", "setMonth", "setYear"} ]_vars

\* the read of a month selected later has been rejected while the marks loaded
\* for an earlier month are still on screen
C16_Witness ==
    /\ lastOp.op = "loadFailed"
    /\ ~loading
    /\ marks # <<>>
    /\ store[Key(Uid, year, month)].marks # Some(marks)
    /\ Reads(inflight) = {}

\* the loads in flight: a read, or the default write a read without document awaits
Loads(fl) == { r \in fl : r.op \in {"getDoc", "create"} }

\* what holds of loading: it is on right after a change of user, month or year
\* that starts a read
LoadingAfterChange ==
    (lastOp.op \in {"auth", "setMonth", "setYear"} /\ user # NoUser) =>
        (loading /\ Loads(inflight) # {})

\* C17: whenever a load started by a change of user, month or year is still in
\* flight, loading is on (and the day grid is not shown)
C17_LoadingWhileReading == Loads(inflight) # {} => loading

\* what holds of the key a click writes to: it is the key of the month on
\* screen, and every write of marks in flight carries marks that were on screen
\* when it was sent
ClickWritesDisplayedKey ==
    [][ (ClickStep /\ marks' # marks) =>
            [op |-> "merge", key |-> Key(user, year, month),
             data |-> Doc(Some(marks'), Missing, Some(requiredPercent), Some(employmentPercent))]
                \in inflight' ]_vars

\* C18: the marks a click sends to the key of the month on screen were set
\* from that key's document, loaded or default-initialised, and changed since
\* only by clicks
C18_MarksWrittenUnderOwnKey ==
    [][ (ClickStep /\ marks' # marks) => marksKey = Key(user, year, month) ]_vars

\* the whole part of a double x >= 0 below 2^53
FFloor(x) ==
    IF x = FZero THEN 0
    ELSE LET nInt == SigBits + x.e
         IN  IF nInt <= 0 THEN 0 ELSE BitsToInt(SubSeq(x.m, 1, nInt))

\* x <= k for a double x >= 0 and an integer k >= 1
FAtMost(x, k) == x # FNaN /\ (FFloor(x) < k \/ x = FDiv(k, 1))

\* percent for every count of present days and of workdays a month can have
PercentTable == [p \in 0..MonthDaysMax, n \in 0..MonthDaysMax |-> PercentOf(p, n)]

\* C19: in every state presentDays is at most the number of workdays, percent
\* is a number within 0..100, and neededDays is at most the number of workdays
C19_StatsWithinWorkdays ==
    /\ presentDays <= Len(workdays)
    /\ FAtMost(PercentTable[presentDays, Len(workdays)], 100)
    /\ neededDays >= 0 /\ neededDays <= Len(workdays)

\* every workday is required (both percentages at 100 after an input above 100)
\* in a month that has days marked present
C19_Witness ==
    /\ requiredPercent = 100 /\ employmentPercent = 100
    /\ neededDays = Len(workdays)
    /\ presentDays > 0 /\ presentDays < Len(workdays)
    /\ lastOp.op = "savePercent"

\* C20: a click on a day leaves the marks of every other day, the two
\* percentages, the displayed year and month and the user as they are, and with
\* no user signed in it leaves the marks as they are and sends nothing
C20_ClickChangesOneDay ==
    [][ ClickStep =>
            /\ { m \in MarkSet(marks') : m.d # lastOp'.day } = { m \in MarkSet(marks) : m.d # lastOp'.day }
            /\ \A d \in (1..MonthDaysMax) \ {lastOp'.day} : getStatus(marks', d) = getStatus(marks, d)
            /\ requiredPercent' = requiredPercent /\ employmentPercent' = employmentPercent
            /\ year' = year /\ month' = month /\ user' = user
            /\ user = NoUser => (marks' = marks /\ inflight' = inflight /\ store' = store) ]_vars

\* a click has changed the status of one day of a month that has marks on
\* other days
C20_Witness ==
    /\ lastOp.op = "click"
    /\ user # NoUser
    /\ getStatus(marks, lastOp.day) # None
    /\ \E i \in 1..Len(marks) : marks[i].d # lastOp.day
    /\ \E w \in inflight : w.op = "merge" /\ w.data.marks = Some(marks)

====
